---- MODULE Spec2Model ----
(***************************************************************************)
(* quorabroker: the fetch service of src/main.py.                          *)
(*                                                                         *)
(* run() builds the stages, starts the Kafka consumer, runs one worker     *)
(* that pulls tasks from KafkaConsumerWrapper.get_tasks() and takes each   *)
(* through fetch -> (extract) -> save_page, and closes the stages in a     *)
(* finally block.  A step of the model is a piece of the code between two  *)
(* awaits; the signal handler runs only where run() is suspended in an     *)
(* await that waits on the event loop (Suspended).                         *)
(*                                                                         *)
(* Environment assumed:                                                    *)
(*  - the logger is the structlog logger of configure_logging, whose       *)
(*    info/warning/error accept keyword fields and return (LoggerLike).    *)
(*    The logging.getLogger fallback rejects keyword fields with a         *)
(*    TypeError wherever the level is enabled; runs with it are not        *)
(*    modelled;                                                            *)
(*  - the event loop implements add_signal_handler, so SIGINT and SIGTERM  *)
(*    reach _signal_handler once line 341 has run; before that a SIGINT    *)
(*    ends run() with KeyboardInterrupt;                                   *)
(*  - the collection object of the motor driver is truthy, so that         *)
(*    "if not self._collection" (line 222) is false when a store is        *)
(*    configured.                                                          *)
(*                                                                         *)
(* The pure function extract_question_answer of src/parser.py, which the   *)
(* service does not call, is modelled at the end with a specification of   *)
(* its own (ParserSpec); so is a KafkaConsumerWrapper whose start() and    *)
(* stop() are called in any order and number (WrapperSpec).                *)
(***************************************************************************)
EXTENDS Integers, Sequences, FiniteSets, TLC

VARIABLES
    env,        \* what Config.load() and the imports found (fixed for a run)
    pc,         \* position of run()
    shutdown,   \* shutdown_event.is_set()
    consumer,   \* KafkaConsumerWrapper: [obj: _consumer is not None, running: _running]
    synth,      \* number of sample_urls the synthetic generator has yielded
    consumed,   \* the messages getone() returned so far, in order
    tasks,      \* the tasks get_tasks() yielded so far, in order
    phase,      \* phase[i]: where the worker is with tasks[i]
    http,       \* http[i]: what the HTTP request of tasks[i] did, while in flight
    doc,        \* doc[i]: page_doc of tasks[i] while the worker holds it
    store,      \* the _id's of the documents in the Mongo collection
    inserts,    \* insert_one calls made so far: task index, _id, error record?, ok
    opened,     \* stages holding an external resource
    closed,     \* close calls completed so far, in order
    exc,        \* the exception that ended run() or is pending in its finally
    atSignal,   \* tasks that were in flight when a signal arrived
    startSignal,   \* a signal arrived while await consumer.start() was pending
    extractCalls,  \* tasks in flight for which browser_worker.extract was called
    html,       \* src/parser.py: the argument of extract_question_answer
    parsed,     \* src/parser.py: what extract_question_answer returned
    calls,      \* KafkaConsumerWrapper alone: the start/stop calls made, in order
    pulledAtSignal  \* history: the number of tasks pulled when the flag was set

vars == <<env, pc, shutdown, consumer, synth, consumed, tasks, phase, http, doc,
          store, inserts, opened, closed, exc, atSignal, startSignal,
          extractCalls, html, parsed, calls, pulledAtSignal>>

(***************************************************************************)
(* Bounds of the model.                                                    *)
(***************************************************************************)
\* messages the broker delivers in a run
MaxMsgs == 2
\* largest max_concurrent_fetches tried
MaxConcurrent == 1

\* Optional[...] values: None is the empty set, a value v is {v}
Nothing == {}
Some(v) == {v}

(***************************************************************************)
(* Configuration and optional imports.                                     *)
(***************************************************************************)
\* Config.max_concurrent_fetches: int(os.getenv(...) or 10), not validated
ConcurrencyValues == 0..MaxConcurrent

\* values of the environment variable MONGO_URI: unset, empty, a URI
MongoUriValues == {Nothing, Some(""), Some("mongodb://db")}

\* kafka: AIOKafkaConsumer imported; webdriver: selenium imported;
\* motor: AsyncIOMotorClient imported; MONGO_URI: os.getenv("MONGO_URI");
\* enable_browser: Settings.enable_browser of src/config.py (ENABLE_BROWSER)
Environments ==
    [kafka: BOOLEAN, webdriver: BOOLEAN, motor: BOOLEAN,
     MONGO_URI: MongoUriValues, max_concurrent_fetches: ConcurrencyValues,
     enable_browser: BOOLEAN]

\* Config.load: mongo_uri=os.getenv("MONGO_URI") or None
LoadMongoUri(v) == IF v = Some("") THEN Nothing ELSE v

\* variant: if cfg.mongo_uri, without the test of the import
HasCollectionWithoutDriver(e) == LoadMongoUri(e.MONGO_URI) \notin {Nothing, Some("")}

\* MongoStore.__init__: if cfg.mongo_uri and AsyncIOMotorClient, the client
\* and self._collection are set; otherwise both stay None
HasCollection(e) ==
    LoadMongoUri(e.MONGO_URI) \notin {Nothing, Some("")} /\ e.motor

(***************************************************************************)
(* URLs, as the sequence of their parts.                                   *)
(***************************************************************************)
QuoraUrl == <<"https://", "www.", "quora.com", "/What-is-Python">>
ExampleUrl == <<"https://", "example.org">>
PythonUrl == <<"https://", "www.python.org">>
RelativeUrl == <<"/What-is-Python">>

\* get_tasks: sample_urls
sample_urls == <<ExampleUrl, PythonUrl>>

\* HttpUrl: an absolute http(s) URL with a host
IsHttpUrl(u) == Len(u) >= 2 /\ u[1] \in {"http://", "https://"}

\* worker: "quora.com" in page_doc["url"]
IsQuora(u) == \E k \in 1..Len(u) : u[k] = "quora.com"

(***************************************************************************)
(* Queue messages (msg.value) and FetchTask.                               *)
(***************************************************************************)
\* payloads a producer may put on the topic
Messages ==
    { [json |-> TRUE,  url |-> QuoraUrl,    id |-> Some("a"), priority |-> Some(50)],
      [json |-> TRUE,  url |-> ExampleUrl,  id |-> Nothing,   priority |-> Nothing],
      [json |-> TRUE,  url |-> PythonUrl,   id |-> Some(""),  priority |-> Some(0)],
      [json |-> FALSE, url |-> <<>>,        id |-> Nothing,   priority |-> Nothing],
      [json |-> TRUE,  url |-> RelativeUrl, id |-> Nothing,   priority |-> Nothing],
      [json |-> TRUE,  url |-> ExampleUrl,  id |-> Some("a"), priority |-> Some(101)] }

\* variant: the priority field declared without ge=0, le=100
PriorityOkUnbounded(p) == TRUE

\* FetchTask.priority: Optional[int] with ge=0, le=100
PriorityOk(p) == \A v \in p : v >= 0 /\ v <= 100

\* json.loads(msg.value.decode("utf-8")) and FetchTask(**payload) both succeed
Validates(m) == m.json /\ IsHttpUrl(m.url) /\ PriorityOk(m.priority)

FetchTask(m) == [url |-> m.url, id |-> m.id, priority |-> m.priority]

(***************************************************************************)
(* Fetcher.fetch                                                           *)
(***************************************************************************)
\* what self._client.get() does: a response, or an exception
Responses == [status_code: {200, 404}, text: {"", "<html>"}]
HttpErrors == {"ConnectError", "ReadTimeout", "RemoteProtocolError"}
FetchOutcomes ==
    [ok: {TRUE}, resp: Responses, err: {""}] \cup
    [ok: {FALSE}, resp: {[status_code |-> 0, text |-> ""]}, err: HttpErrors]

\* values of os.urandom(8).hex()
RandomIds == {"r1", "r2"}

\* task.id or os.urandom(8).hex()
DocId(task, rnd) == IF task.id # Nothing /\ task.id # Some("") THEN task.id ELSE Some(rnd)

\* variant: the except branch leaves html as an empty string
ErrorDocumentEmptyHtml(task, o, rnd) ==
    [_id |-> DocId(task, rnd), url |-> task.url, status_code |-> Nothing,
     html |-> Some(""), error |-> Some(o.err), content_length |-> 0,
     priority |-> task.priority,
     extracted |-> FALSE, question |-> Nothing, answer |-> Nothing]

\* the dict of the except branch
ErrorDocument(task, o, rnd) ==
    [_id |-> DocId(task, rnd), url |-> task.url, status_code |-> Nothing,
     html |-> Nothing, error |-> Some(o.err), content_length |-> 0,
     priority |-> task.priority,
     extracted |-> FALSE, question |-> Nothing, answer |-> Nothing]

\* the dict of the try branch
SuccessDocument(task, o, rnd) ==
    [_id |-> DocId(task, rnd), url |-> task.url,
     status_code |-> Some(o.resp.status_code),
     html |-> Some(o.resp.text), error |-> Nothing,
     content_length |-> IF o.resp.text = "" THEN 0 ELSE 1,
     priority |-> task.priority,
     extracted |-> FALSE, question |-> Nothing, answer |-> Nothing]

\* fetch(task): every Exception of the request is turned into a document
Fetch(task, o, rnd) ==
    IF o.ok THEN SuccessDocument(task, o, rnd) ELSE ErrorDocument(task, o, rnd)

(***************************************************************************)
(* BrowserWorker.extract                                                   *)
(***************************************************************************)
\* raised: self._driver.get(url) raised; else the stripped texts found
ExtractOutcomes ==
    [raised: BOOLEAN, question: {Nothing, Some("What is Python?")},
     answer: {Nothing, Some("Python is a programming language.")}]

\* variant: the test without page_doc.get("html")
NeedsBrowserAnyRecord(browser, d) == browser /\ IsQuora(d.url)

\* worker: browser_worker and page_doc.get("html") and "quora.com" in url
NeedsBrowser(browser, d) ==
    browser /\ d.html # Nothing /\ d.html # Some("") /\ IsQuora(d.url)

\* page_doc.update(extracted)
Update(d, x) == [d EXCEPT !.extracted = TRUE, !.question = x.question, !.answer = x.answer]

\* variant: the except branch of the worker empties the html of the record
AfterExtractLosesHtml(browser, d, x) ==
    IF NeedsBrowser(browser, d)
      THEN IF x.raised THEN [d EXCEPT !.html = Nothing, !.content_length = 0]
                        ELSE Update(d, x)
      ELSE d

\* lines 351-356: the document after the optional extraction
AfterExtract(browser, d, x) ==
    IF NeedsBrowser(browser, d) /\ ~x.raised THEN Update(d, x) ELSE d

NoDoc ==
    [_id |-> Nothing, url |-> <<>>, status_code |-> Nothing, html |-> Nothing,
     error |-> Nothing, content_length |-> 0, priority |-> Nothing,
     extracted |-> FALSE, question |-> Nothing, answer |-> Nothing]

(***************************************************************************)
(* The state of a run.                                                     *)
(***************************************************************************)
\* parsed before extract_question_answer has returned
NotParsed == [called |-> FALSE, question |-> Nothing, answer |-> Nothing]

NoError == "none"

InFlightPhases == {"fetching", "fetched", "saving"}

\* tasks between the start of their fetch and the end of their save_page
InFlight == {i \in 1..Len(tasks) : phase[i] \in InFlightPhases}

\* browser_worker is not None (line 329)
HasBrowser == env.webdriver

\* signal handlers are installed from line 341 until the loop is closed
HandlersInstalled ==
    pc \in {"starting", "running", "stop_consumer", "close_fetcher",
            "close_store", "close_browser"}

\* run() has not begun
NotStarted ==
    /\ pc = "construct"
    /\ shutdown = FALSE
    /\ consumer = [obj |-> FALSE, running |-> FALSE]
    /\ synth = 0
    /\ consumed = <<>>
    /\ tasks = <<>>
    /\ phase = <<>>
    /\ http = <<>>
    /\ doc = <<>>
    /\ store = {}
    /\ inserts = <<>>
    /\ opened = {}
    /\ closed = <<>>
    /\ exc = NoError
    /\ atSignal = {}
    /\ startSignal = FALSE
    /\ extractCalls = {}
    /\ calls = <<>>
    /\ pulledAtSignal = Nothing

Init ==
    /\ env \in Environments
    /\ NotStarted
    /\ html = <<>>
    /\ parsed = NotParsed

(***************************************************************************)
(* run(): construction of the stages, lines 323-344.                       *)
(***************************************************************************)
\* the stages that hold a resource once lines 328-331 are done
Constructed(e) ==
    {"fetcher"} \cup (IF HasCollection(e) THEN {"store"} ELSE {})
                \cup (IF e.webdriver THEN {"browser"} ELSE {})

\* browserOk: webdriver.Chrome(...) could be launched
Construct(browserOk) ==
    /\ pc = "construct"
    /\ IF env.webdriver /\ ~browserOk
         THEN /\ pc' = "raised"
              /\ exc' = "BrowserInitError"
              /\ UNCHANGED opened
         ELSE /\ pc' = "starting"
              /\ opened' = Constructed(env)
              /\ UNCHANGED exc
    /\ UNCHANGED <<env, calls, pulledAtSignal, html, parsed, startSignal, extractCalls, shutdown, consumer, synth, consumed, tasks, phase, http, doc,
                   store, inserts, closed, atSignal>>

\* SIGINT while lines 323-338 run, before line 341 has replaced the default
\* handler: KeyboardInterrupt leaves run() and asyncio.run()
KeyboardInterrupt ==
    /\ pc = "construct"
    /\ pc' = "interrupted"
    /\ UNCHANGED <<env, calls, pulledAtSignal, html, parsed, startSignal, extractCalls, shutdown, consumer,
                   synth, consumed, tasks, phase, http, doc, store, inserts,
                   opened, closed, exc, atSignal>>

\* run() is suspended in an await that waits on the event loop; only there
\* does the loop run a signal handler.  Awaits that return without waiting
\* (start() without aiokafka, the synthetic yield, save_page without a
\* collection, stop() without a consumer, store.close()) are no such point.
Suspended ==
    \/ pc = "starting" /\ env.kafka
    \/ pc = "running" /\ InFlight = {} /\ consumer.obj
    \/ pc = "running" /\ InFlight = {} /\ ~consumer.obj /\ synth = Len(sample_urls)
    \/ pc = "running" /\ \E i \in InFlight : phase[i] = "fetching"
    \/ pc = "running" /\ HasCollection(env) /\ \E i \in InFlight : phase[i] = "saving"
    \/ pc = "stop_consumer" /\ consumer.obj
    \/ pc = "close_fetcher"

\* variant: the handler also cancels the worker, which goes to the finally
SignalHandlerCancels ==
    /\ HandlersInstalled
    /\ Suspended
    /\ shutdown' = TRUE
    /\ atSignal' = atSignal \cup InFlight
    /\ pulledAtSignal' = IF shutdown THEN pulledAtSignal ELSE Some(Len(tasks))
    /\ startSignal' = (startSignal \/ pc = "starting")
    /\ pc' = IF pc = "running" THEN "stop_consumer" ELSE pc
    /\ UNCHANGED <<env, calls, html, parsed, extractCalls, consumer, synth, consumed, tasks, phase, http, doc,
                   store, inserts, opened, closed, exc>>

\* _signal_handler: shutdown_event.set()
SignalHandler ==
    /\ HandlersInstalled
    /\ Suspended
    /\ shutdown' = TRUE
    /\ atSignal' = atSignal \cup InFlight
    /\ pulledAtSignal' = IF shutdown THEN pulledAtSignal ELSE Some(Len(tasks))
    /\ startSignal' = (startSignal \/ pc = "starting")
    /\ UNCHANGED <<env, calls, html, parsed, extractCalls, pc, consumer, synth, consumed, tasks, phase, http, doc,
                   store, inserts, opened, closed, exc>>

(***************************************************************************)
(* KafkaConsumerWrapper.start, awaited at line 346 outside the try.        *)
(***************************************************************************)
\* where run() goes when self._consumer.start() raises
StartFailed ==
    /\ pc' = "raised"
    /\ exc' = "KafkaConnectionError"
    /\ consumer' = [obj |-> TRUE, running |-> FALSE]
    /\ UNCHANGED opened

\* brokerUp: the bootstrap servers answer
ConsumerStart(brokerUp) ==
    /\ pc = "starting"
    /\ IF ~env.kafka
         THEN /\ pc' = "running"
              /\ UNCHANGED <<consumer, opened, exc>>
         ELSE IF brokerUp
           THEN /\ pc' = "running"
                /\ consumer' = [obj |-> TRUE, running |-> TRUE]
                /\ opened' = opened \cup {"consumer"}
                /\ UNCHANGED exc
           ELSE StartFailed
    /\ UNCHANGED <<env, calls, pulledAtSignal, html, parsed, startSignal, extractCalls, shutdown, synth, consumed, tasks, phase, http, doc,
                   store, inserts, closed, atSignal>>

(***************************************************************************)
(* run.worker and KafkaConsumerWrapper.get_tasks, lines 293-314, 348-362.  *)
(***************************************************************************)
NoOutcome == [ok |-> TRUE, resp |-> [status_code |-> 0, text |-> ""], err |-> "unset"]

\* variant: each task is spawned with create_task and not awaited
WorkerIdleSpawns == TRUE

\* async for: the next task is asked for once the body is done with the last
WorkerIdle == InFlight = {}

\* the loop body starts on a task: await fetcher.fetch(task)
StartTask(task) ==
    /\ tasks' = Append(tasks, task)
    /\ phase' = Append(phase, "fetching")
    /\ http' = Append(http, NoOutcome)
    /\ doc' = Append(doc, NoDoc)

\* get_tasks, self._consumer is None: the next of sample_urls
SyntheticYield ==
    /\ pc = "running"
    /\ ~consumer.obj
    /\ WorkerIdle
    /\ synth < Len(sample_urls)
    /\ synth' = synth + 1
    /\ StartTask([url |-> sample_urls[synth + 1], id |-> Nothing, priority |-> Nothing])
    /\ UNCHANGED <<env, calls, pulledAtSignal, html, parsed, startSignal, extractCalls, pc, shutdown, consumer, consumed, store, inserts,
                   opened, closed, exc, atSignal>>

\* get_tasks, self._consumer is None: sleep(0.5) and return; the loop ends
SyntheticEnd ==
    /\ pc = "running"
    /\ ~consumer.obj
    /\ WorkerIdle
    /\ synth = Len(sample_urls)
    /\ pc' = "stop_consumer"
    /\ UNCHANGED <<env, calls, pulledAtSignal, html, parsed, startSignal, extractCalls, shutdown, consumer, synth, consumed, tasks, phase, http,
                   doc, store, inserts, opened, closed, exc, atSignal>>

\* variant: the try/except encloses the while loop, so the generator returns
OnInvalidMessageEndsSequence ==
    /\ pc' = "stop_consumer"
    /\ UNCHANGED <<tasks, phase, http, doc>>

\* get_tasks, except Exception inside the while loop: log and take the next
OnInvalidMessage ==
    /\ UNCHANGED <<pc, tasks, phase, http, doc>>

\* get_tasks: msg = await self._consumer.getone(), then parse and yield
GetOne(m) ==
    /\ pc = "running"
    /\ consumer.obj
    /\ WorkerIdle
    /\ Len(consumed) < MaxMsgs
    /\ consumed' = Append(consumed, m)
    /\ IF Validates(m)
         THEN StartTask(FetchTask(m)) /\ UNCHANGED pc
         ELSE OnInvalidMessage
    /\ UNCHANGED <<env, calls, pulledAtSignal, html, parsed, startSignal, extractCalls, shutdown, consumer, synth, store, inserts,
                   opened, closed, exc, atSignal>>

\* getone() raises (not CancelledError): the worker raises into the finally
GetOneRaises ==
    /\ pc = "running"
    /\ consumer.obj
    /\ WorkerIdle
    /\ pc' = "stop_consumer"
    /\ exc' = "KafkaError"
    /\ UNCHANGED <<env, calls, pulledAtSignal, html, parsed, startSignal, extractCalls, shutdown, consumer, synth, consumed, tasks, phase, http,
                   doc, store, inserts, opened, closed, atSignal>>

\* variant: except httpx.ConnectError only
FetchCatchesConnectOnly(err) == err = "ConnectError"

\* Fetcher.fetch: except Exception catches every error of the request
FetchCatches(err) == TRUE

\* await fetcher.fetch(task) returns page_doc
FetchReturn(i, o, rnd) ==
    /\ pc = "running"
    /\ i \in 1..Len(tasks)
    /\ phase[i] = "fetching"
    /\ http' = [http EXCEPT ![i] = o]
    /\ IF o.ok \/ FetchCatches(o.err)
         THEN /\ doc' = [doc EXCEPT ![i] = Fetch(tasks[i], o, rnd)]
              /\ phase' = [phase EXCEPT ![i] = "fetched"]
              /\ UNCHANGED <<pc, exc>>
         ELSE /\ phase' = [phase EXCEPT ![i] = "failed"]
              /\ pc' = "stop_consumer"
              /\ exc' = o.err
              /\ UNCHANGED doc
    /\ UNCHANGED <<env, calls, pulledAtSignal, html, parsed, startSignal, extractCalls, shutdown, consumer, synth, consumed, tasks, store,
                   inserts, opened, closed, atSignal>>

\* lines 351-357: optional extraction, then the call of store.save_page
ExtractAndCallSave(i, x) ==
    /\ pc = "running"
    /\ i \in 1..Len(tasks)
    /\ phase[i] = "fetched"
    /\ doc' = [doc EXCEPT ![i] = AfterExtract(HasBrowser, doc[i], x)]
    /\ phase' = [phase EXCEPT ![i] = "saving"]
    /\ extractCalls' = IF NeedsBrowser(HasBrowser, doc[i])
                         THEN extractCalls \cup {i} ELSE extractCalls
    /\ UNCHANGED <<env, calls, pulledAtSignal, html, parsed, startSignal, pc, shutdown, consumer, synth, consumed, tasks, http,
                   store, inserts, opened, closed, exc, atSignal>>

\* variant: the worker does not test the flag after a task
TaskProcessedNoBreak(i) ==
    /\ phase' = [phase EXCEPT ![i] = "done"]
    /\ http' = [http EXCEPT ![i] = NoOutcome]
    /\ doc' = [doc EXCEPT ![i] = NoDoc]
    /\ pc' = "running"
    /\ UNCHANGED exc

\* lines 358-362: log task_processed, then if shutdown_event.is_set(): break
TaskProcessed(i) ==
    /\ phase' = [phase EXCEPT ![i] = "done"]
    /\ http' = [http EXCEPT ![i] = NoOutcome]
    /\ doc' = [doc EXCEPT ![i] = NoDoc]
    /\ pc' = IF shutdown THEN "stop_consumer" ELSE "running"
    /\ UNCHANGED exc

\* variant: save_page catches the error of insert_one and tries again
SaveFailedRetries(i, error) == UNCHANGED <<phase, http, doc, pc, exc>>

\* save_page raised: the exception leaves the worker, run() enters its finally
SaveFailed(i, error) ==
    /\ phase' = [phase EXCEPT ![i] = "failed"]
    /\ http' = [http EXCEPT ![i] = NoOutcome]
    /\ doc' = [doc EXCEPT ![i] = NoDoc]
    /\ pc' = "stop_consumer"
    /\ exc' = error

\* MongoStore.save_page returns or raises; reachable: the store answers
SaveReturn(i, reachable) ==
    /\ pc = "running"
    /\ i \in 1..Len(tasks)
    /\ phase[i] = "saving"
    /\ extractCalls' = extractCalls \ {i}
    /\ IF ~HasCollection(env)
         THEN /\ TaskProcessed(i)
              /\ UNCHANGED <<store, inserts>>
         ELSE LET duplicate == doc[i]._id \subseteq store
                  ok == reachable /\ ~duplicate
              IN /\ inserts' = Append(inserts, [task |-> i, id |-> doc[i]._id,
                                           error |-> doc[i].error # Nothing,
                                           ok |-> ok])
                 /\ IF ok
                      THEN /\ store' = store \cup doc[i]._id
                           /\ TaskProcessed(i)
                      ELSE /\ UNCHANGED store
                           /\ SaveFailed(i, IF duplicate THEN "DuplicateKeyError"
                                                         ELSE "StoreUnreachable")
    /\ UNCHANGED <<env, calls, pulledAtSignal, html, parsed, startSignal, shutdown, consumer, synth, consumed, tasks,
                   opened, closed, atSignal>>

(***************************************************************************)
(* run(): the finally block, lines 366-376.                                *)
(***************************************************************************)
ClosedStages == {closed[k] : k \in 1..Len(closed)}

\* a close call raised inside the finally: the rest of the block is skipped
CloseRaised ==
    /\ pc' = "raised"
    /\ exc' = "CloseError"
    /\ UNCHANGED <<opened, closed>>

\* a close call returned; run() goes on at position next
CloseReturned(stage, next) ==
    /\ pc' = next
    /\ opened' = opened \ {stage}
    /\ closed' = Append(closed, stage)
    /\ UNCHANGED exc

\* variant: the finally block goes from consumer.stop() to store.close()
StopConsumerThenStore(ok) ==
    /\ pc = "stop_consumer"
    /\ IF consumer.obj /\ ~ok
         THEN CloseRaised
         ELSE CloseReturned("consumer", "close_store")
    /\ UNCHANGED <<env, calls, pulledAtSignal, html, parsed, startSignal, extractCalls, shutdown, consumer,
                   synth, consumed, tasks, phase, http, doc, store, inserts, atSignal>>

\* await consumer.stop(): if self._consumer: await self._consumer.stop()
StopConsumer(ok) ==
    /\ pc = "stop_consumer"
    /\ IF consumer.obj /\ ~ok
         THEN CloseRaised
         ELSE CloseReturned("consumer", "close_fetcher")
    /\ UNCHANGED <<env, calls, pulledAtSignal, html, parsed, startSignal, extractCalls, shutdown, consumer, synth, consumed, tasks, phase, http,
                   doc, store, inserts, atSignal>>

\* await fetcher.close(): await self._client.aclose()
CloseFetcher(ok) ==
    /\ pc = "close_fetcher"
    /\ IF ~ok
         THEN CloseRaised
         ELSE CloseReturned("fetcher", "close_store")
    /\ UNCHANGED <<env, calls, pulledAtSignal, html, parsed, startSignal, extractCalls, shutdown, consumer, synth, consumed, tasks, phase, http,
                   doc, store, inserts, atSignal>>

\* await store.close(): if self._client: self._client.close()
CloseStore(ok) ==
    /\ pc = "close_store"
    /\ IF HasCollection(env) /\ ~ok
         THEN CloseRaised
         ELSE CloseReturned("store", "close_browser")
    /\ UNCHANGED <<env, calls, pulledAtSignal, html, parsed, startSignal, extractCalls, shutdown, consumer, synth, consumed, tasks, phase, http,
                   doc, store, inserts, atSignal>>

\* if browser_worker: browser_worker.close() (errors swallowed); then the
\* finally block ends: return 0, or the pending exception is raised again
CloseBrowser ==
    /\ pc = "close_browser"
    /\ pc' = IF exc = NoError THEN "returned" ELSE "raised"
    /\ IF HasBrowser
         THEN /\ opened' = opened \ {"browser"}
              /\ closed' = Append(closed, "browser")
         ELSE UNCHANGED <<opened, closed>>
    /\ UNCHANGED <<env, calls, pulledAtSignal, html, parsed, startSignal, extractCalls, shutdown, consumer, synth, consumed, tasks, phase, http,
                   doc, store, inserts, exc, atSignal>>

(***************************************************************************)
(* Specifications.                                                         *)
(***************************************************************************)
Worker ==
    \/ SyntheticYield
    \/ SyntheticEnd
    \/ \E i \in 1..Len(tasks), o \in FetchOutcomes, rnd \in RandomIds : FetchReturn(i, o, rnd)
    \/ \E i \in 1..Len(tasks), x \in ExtractOutcomes : ExtractAndCallSave(i, x)
    \/ \E i \in 1..Len(tasks), reachable \in BOOLEAN : SaveReturn(i, reachable)

Cleanup ==
    \/ \E ok \in BOOLEAN : StopConsumer(ok)
    \/ \E ok \in BOOLEAN : CloseFetcher(ok)
    \/ \E ok \in BOOLEAN : CloseStore(ok)
    \/ CloseBrowser

Next ==
    \/ \E browserOk \in BOOLEAN : Construct(browserOk)
    \/ KeyboardInterrupt
    \/ \E brokerUp \in BOOLEAN : ConsumerStart(brokerUp)
    \/ SignalHandler
    \/ \E m \in Messages : GetOne(m)
    \/ GetOneRaises
    \/ Worker
    \/ Cleanup

Spec == Init /\ [][Next]_vars

\* The event loop runs every step that is ready; requests, inserts and close
\* calls end (they time out).  Nothing makes the broker deliver a message or
\* the operator send a signal.
FairSpec ==
    /\ Spec
    /\ WF_vars(\E browserOk \in BOOLEAN : Construct(browserOk))
    /\ WF_vars(\E brokerUp \in BOOLEAN : ConsumerStart(brokerUp))
    /\ WF_vars(Worker)
    /\ WF_vars(Cleanup)

(***************************************************************************)
(* Properties.                                                             *)
(***************************************************************************)
Stopped == pc \in {"returned", "raised", "interrupted"}

\* main(): the status the process exits with.  asyncio.run(run()) returned 0;
\* except KeyboardInterrupt: 130; any other exception leaves main() and the
\* interpreter exits with 1.  Nothing while run() has not ended.
exit_code ==
    IF pc = "returned" THEN Some(0)
    ELSE IF pc = "interrupted" THEN Some(130)
    ELSE IF pc = "raised" THEN Some(1)
    ELSE Nothing

C2_NoTaskStartedAfterSignal == [][shutdown => tasks' = tasks]_vars

\* save_page was run to its end for task i: it returned, or insert_one raised
PersistStepEnded(i) ==
    \/ phase[i] = "done"
    \/ phase[i] = "failed" /\ \E k \in 1..Len(inserts) : inserts[k].task = i

\* C3: a task in flight when the signal arrives is not cancelled; its fetch
\* and its persist step have ended before any stage is closed and before
\* run() ends.
C3_InFlightCompleteBeforeClose ==
    (pc # "running") => \A i \in atSignal : PersistStepEnded(i)

\* C3 witness: a task was in flight at the signal, was saved, run() returned
C3_Witness ==
    /\ pc = "returned"
    /\ \E i \in atSignal : phase[i] = "done" /\ HasCollection(env)
    /\ ClosedStages = {"consumer", "fetcher", "store"} \cup
                      (IF HasBrowser THEN {"browser"} ELSE {})

\* C4: after a shutdown signal received while running, the coordinator
\* eventually reaches the stopped state, also when the queue delivers no
\* further message: from a running state with the flag set and n messages
\* received, run() ends or a further message is received.
C4_ShutdownLeadsToStopped ==
    \A n \in 0..(MaxMsgs - 1) :
        (shutdown /\ pc = "running" /\ Len(consumed) = n)
            ~> (Stopped \/ Len(consumed) > n)

PersistErrors == {"DuplicateKeyError", "StoreUnreachable"}

\* C5: a persistence failure of one task does not abort the coordinator: the
\* worker is never ended by the exception of a save_page call.
C5_PersistFailureContained == exc \notin PersistErrors

\* C6: fetch never raises for an error of the HTTP request; the failure is a
\* record with error set, status_code and html absent, and that record goes
\* to the persist step.
C6_FetchNeverRaises ==
    /\ exc \notin HttpErrors
    /\ \A i \in 1..Len(tasks) :
          (phase[i] \in {"fetched", "saving"} /\ ~http[i].ok) =>
              /\ doc[i].error = Some(http[i].err)
              /\ doc[i].status_code = Nothing
              /\ doc[i].html = Nothing

\* C6 witness: the record of a timed-out request is at save_page
C6_Witness ==
    \E i \in 1..Len(tasks) :
        /\ phase[i] = "saving"
        /\ ~http[i].ok
        /\ http[i].err = "ReadTimeout"
        /\ doc[i].error = Some("ReadTimeout")

\* C7: for every page record (as returned by fetch, after the extraction is
\* merged, when handed to save_page): error is not None iff html is None iff
\* status_code is None.
C7_ErrorIffNoHtmlIffNoStatus ==
    \A i \in 1..Len(tasks) :
        phase[i] \in {"fetched", "saving"} =>
            /\ (doc[i].error # Nothing) <=> (doc[i].html = Nothing)
            /\ (doc[i].error # Nothing) <=> (doc[i].status_code = Nothing)

\* C7 witness: a record with the extraction merged in is handed to save_page
C7_Witness ==
    \E i \in 1..Len(tasks) :
        /\ phase[i] = "saving"
        /\ doc[i].extracted
        /\ doc[i].question # Nothing
        /\ doc[i].error = Nothing
        /\ doc[i].html # Nothing

\* C8: a failure of the task source's start() is not fatal: run() is not
\* ended by it.
C8_StartFailureNotFatal == ~(pc = "raised" /\ exc = "KafkaConnectionError")

\* C9: when a stage fails to initialize during startup, every stage already
\* initialized has been released when the run ends.
C9_ReleasedOnStartupFailure ==
    (pc = "raised" /\ exc \in {"KafkaConnectionError", "BrowserInitError"}) =>
        opened = {}

\* C10: an invalid message does not end the task sequence: the tasks yielded
\* are the valid messages received, in order, and the live loop is left
\* without an exception only by the break after a processed task.
C10_InvalidMessageSkipped ==
    consumer.obj =>
        LET valid == SelectSeq(consumed, Validates)
        IN /\ Len(tasks) = Len(valid)
           /\ \A k \in 1..Len(valid) : tasks[k] = FetchTask(valid[k])
           /\ (pc # "running" /\ exc = NoError) =>
                 /\ shutdown
                 /\ consumed # <<>>
                 /\ Validates(consumed[Len(consumed)])

\* C10 witness: invalid, then valid received; the valid one was yielded
C10_Witness ==
    /\ Len(consumed) = 2
    /\ ~Validates(consumed[1])
    /\ Validates(consumed[2])
    /\ Len(tasks) = 1
    /\ tasks[1] = FetchTask(consumed[2])

\* a payload the claim calls invalid: not JSON, url not absolute, or a
\* priority outside 0..100
FailsValidation(m) ==
    \/ ~m.json
    \/ Len(m.url) < 2
    \/ m.url[1] \notin {"http://", "https://"}
    \/ \E v \in m.priority : v < 0 \/ v > 100

\* C11: a message whose payload fails validation never enters the pipeline:
\* the live source yields one task per well-formed message and none for the
\* others, so no fetch, extraction or save_page is done for an invalid one.
C11_InvalidNeverEntersPipeline ==
    consumer.obj =>
        /\ Len(tasks) = Cardinality({k \in 1..Len(consumed) : ~FailsValidation(consumed[k])})
        /\ \A i \in 1..Len(tasks) :
              ~FailsValidation([json |-> TRUE, url |-> tasks[i].url,
                                id |-> tasks[i].id, priority |-> tasks[i].priority])
        /\ \A k \in 1..Len(inserts) : inserts[k].task \in 1..Len(tasks)

\* C11 witness: a payload that is not JSON or has a relative url, and one with
\* priority 101, were received and nothing was fetched or saved
C11_Witness ==
    /\ Len(consumed) = 2
    /\ \E k \in 1..2 : ~consumed[k].json \/ consumed[k].url = RelativeUrl
    /\ \E k \in 1..2 : consumed[k].json /\ consumed[k].priority = Some(101)
    /\ tasks = <<>>
    /\ inserts = <<>>
    /\ pc = "running"

\* C12: in degraded mode and with no shutdown signal, once the worker has left
\* its loop each of the two synthetic tasks has been processed exactly once,
\* and when run() has ended it has returned with every stage closed
C12_DegradedRunCompletes ==
    (~env.kafka /\ ~shutdown /\ Len(tasks) >= 1 /\ pc # "running") =>
        /\ synth = Len(sample_urls)
        /\ Len(tasks) = Len(sample_urls)
        /\ \A i \in 1..Len(tasks) :
              tasks[i].url = sample_urls[i] /\ phase[i] = "done"
        /\ Stopped => pc = "returned" /\ opened = {}

\* the claim's "no durable store configured": MONGO_URI unset or empty, or
\* the motor driver missing
NoStoreConfigured == env.MONGO_URI \in {Nothing, Some("")} \/ ~env.motor

\* C13: when no durable store is configured, save_page never inserts and never
\* raises, so no task fails in the persist step and no persistence error ends
\* the run
C13_NoStoreSaveReturns ==
    NoStoreConfigured =>
        /\ inserts = <<>>
        /\ store = {}
        /\ exc \notin PersistErrors
        /\ \A i \in 1..Len(tasks) : phase[i] # "failed"

C13_Witness ==
    /\ env.MONGO_URI = Some("mongodb://db")
    /\ ~env.motor
    /\ \E i \in 1..Len(tasks) : phase[i] = "done"
    /\ \E i \in 1..Len(tasks) : phase[i] = "saving" /\ doc[i].error # Nothing

\* insert_one calls made for tasks[i]
InsertsOf(i) == {k \in 1..Len(inserts) : inserts[k].task = i}

\* C14: with a store configured, a task that has left the persist step has
\* had exactly one insert_one call, keyed by its record id, and a task still
\* before the end of that step has had none; a failed insert ends the task as
\* failed with the error raised to run(), and is not repeated
C14_OneInsertPerTask ==
    HasCollection(env) =>
        \A i \in 1..Len(tasks) :
            /\ phase[i] \in InFlightPhases => InsertsOf(i) = {}
            /\ phase[i] \in {"done", "failed"} => Cardinality(InsertsOf(i)) = 1
            /\ \A k \in InsertsOf(i) :
                  /\ inserts[k].id # Nothing
                  /\ tasks[i].id \notin {Nothing, Some("")} => inserts[k].id = tasks[i].id
                  /\ inserts[k].ok <=> phase[i] = "done"
                  /\ ~inserts[k].ok => exc \in PersistErrors \cup {"CloseError"} /\ pc # "running"

C14_Witness ==
    /\ HasCollection(env)
    /\ Len(inserts) = 2
    /\ inserts[1].ok /\ inserts[1].error
    /\ ~inserts[2].ok /\ ~inserts[2].error
    /\ inserts[2].id = inserts[1].id
    /\ phase = <<"done", "failed">>

\* C15: a record carries the id of its task when the payload had one, and
\* the records of two distinct tasks without an id of their own never have
\* the same generated id
C15_IdSuppliedOrUnique ==
    /\ \A i \in 1..Len(tasks) :
          (phase[i] \in {"fetched", "saving"} /\ tasks[i].id # Nothing) =>
              doc[i]._id = tasks[i].id
    /\ \A j, k \in 1..Len(inserts) :
          (/\ inserts[j].task # inserts[k].task
           /\ tasks[inserts[j].task].id = Nothing
           /\ tasks[inserts[k].task].id = Nothing) =>
              inserts[j].id # inserts[k].id

\* C16: when an interrupt arrived during startup (while the stages were being
\* built or while consumer.start() was pending) the process does not exit
\* with status 0, and a run that returned after a later signal exits with 0
C16_StartupInterruptExitsNonZero ==
    /\ (startSignal \/ pc = "interrupted") => exit_code # Some(0)
    /\ (shutdown /\ ~startSignal /\ pc = "returned") => exit_code = Some(0)

\* C17: when the enable_browser setting is false no browser session is
\* created and extract is not called for any task
C17_ExtractionGatedBySetting ==
    ~env.enable_browser =>
        /\ "browser" \notin opened
        /\ "browser" \notin ClosedStages
        /\ extractCalls = {}

\* the order of the close calls: Task Source, Fetch Stage, Persistence Stage,
\* Extraction Stage
CloseOrder == <<"consumer", "fetcher", "store", "browser">>

\* the first n stages of CloseOrder
ClosedUpTo(n) == SubSeq(CloseOrder, 1, n)

\* C19: the close calls completed so far are an initial part of CloseOrder,
\* each close call is reached only when exactly the stages before it have
\* been closed, and none is reached while a task is in flight
C19_ClosedInOrderAfterTasks ==
    /\ Len(closed) <= Len(CloseOrder)
    /\ closed = ClosedUpTo(Len(closed))
    /\ pc = "stop_consumer" => closed = ClosedUpTo(0)
    /\ pc = "close_fetcher" => closed = ClosedUpTo(1)
    /\ pc = "close_store" => closed = ClosedUpTo(2)
    /\ pc = "close_browser" => closed = ClosedUpTo(3)
    /\ (closed # <<>> \/ pc \in {"stop_consumer", "close_fetcher", "close_store",
                                  "close_browser"}) => InFlight = {}

C19_Witness ==
    /\ closed = CloseOrder
    /\ shutdown
    /\ atSignal # {}
    /\ pc = "returned"

\* C20: extract is called for a task only if its record has no error, has
\* HTML content and a URL that contains quora.com; a record of a failed fetch
\* is never passed to it and never carries extracted fields
C20_ExtractOnlyForFetchedQuoraHtml ==
    /\ \A i \in extractCalls :
          /\ phase[i] = "saving"
          /\ http[i].ok
          /\ doc[i].error = Nothing
          /\ doc[i].html \notin {Nothing, Some("")}
          /\ IsQuora(tasks[i].url)
    /\ \A i \in 1..Len(tasks) :
          (phase[i] = "saving" /\ doc[i].extracted) => i \in extractCalls

C20_Witness ==
    \E i \in extractCalls :
        /\ doc[i].extracted
        /\ doc[i].question # Nothing
        /\ doc[i].status_code = Some(200)

(***************************************************************************)
(* src/parser.py: extract_question_answer.                                 *)
(*                                                                         *)
(* A text is the sequence of its characters or words, with " " and "\n"    *)
(* for whitespace.  A document is the sequence of its elements in markup   *)
(* order; an element has a tag name, its class attribute as written (a     *)
(* sequence of class names) and its contents: text nodes (name "") and     *)
(* inline children with one text node each.                                *)
(***************************************************************************)
\* elements in a document
MaxElems == 2

IsSpace(c) == c \in {" ", "\n"}

\* str.strip()
Strip(t) ==
    LET inked == {k \in 1..Len(t) : ~IsSpace(t[k])}
    IN IF inked = {} THEN <<>>
       ELSE SubSeq(t, CHOOSE k \in inked : \A j \in inked : k <= j,
                      CHOOSE k \in inked : \A j \in inked : k >= j)

TextNode(t) == [name |-> "", string |-> t]
Child(name, t) == [name |-> name, string |-> t]

\* contents of an element: empty; the flat text of sample_html; the same with
\* surrounding whitespace; whitespace only; text with an inline child in the
\* middle; two fragments that touch without whitespace
Contents ==
    { <<>>,
      <<TextNode(<<"What", " ", "is", " ", "Python", "?">>)>>,
      <<TextNode(<<"\n", " ", "What", " ", "is", " ", "Python", "?", "\n">>)>>,
      <<TextNode(<<"\n", " ">>)>>,
      <<TextNode(<<"What", " ", "is", " ">>), Child("b", <<"Python">>), TextNode(<<"?">>)>>,
      <<TextNode(<<"Python">>), Child("span", <<"rocks">>)>> }

QUESTION_SELECTOR == [name |-> "div", class |-> {"puppeteer_test_question_title"}]
ANSWER_SELECTOR ==
    [name |-> "p",
     class |-> {"q-text", "qu-display--block", "qu-wordBreak--break-word",
                "qu-textAlign--start"}]

\* the tags tried: the two of sample_html, a div with a second class, a p
\* that lacks two of the four classes
Tags ==
    { [name |-> "div", class |-> <<"puppeteer_test_question_title">>],
      [name |-> "div", class |-> <<"q-box", "puppeteer_test_question_title">>],
      [name |-> "p", class |-> <<"q-text", "qu-display--block",
                                 "qu-wordBreak--break-word", "qu-textAlign--start">>],
      [name |-> "p", class |-> <<"q-text", "qu-display--block">>] }

Elements == {[name |-> t.name, class |-> t.class, contents |-> c] : t \in Tags, c \in Contents}

\* the HTML inputs
Documents == UNION {[1..n -> Elements] : n \in 0..MaxElems}

\* a CSS selector tag.c1.c2...: the name, and every class among the element's
Selects(sel, el) ==
    /\ el.name = sel.name
    /\ sel.class \subseteq {el.class[k] : k \in 1..Len(el.class)}

\* soup.select_one(selector): the first match in document order, or None
select_one(soup, sel) ==
    LET hits == {k \in 1..Len(soup) : Selects(sel, soup[k])}
    IN IF hits = {} THEN Nothing
       ELSE Some(soup[CHOOSE k \in hits : \A j \in hits : k <= j])

NonEmpty(t) == t # <<>>

\* Tag._all_strings(strip=True): every string below the element, stripped,
\* the empty ones dropped
all_strings(el) ==
    SelectSeq([k \in 1..Len(el.contents) |-> Strip(el.contents[k].string)], NonEmpty)

\* separator.join(strings)
RECURSIVE Join(_, _)
Join(strings, separator) ==
    IF strings = <<>> THEN <<>>
    ELSE IF Len(strings) = 1 THEN strings[1]
    ELSE strings[1] \o separator \o Join(Tail(strings), separator)

\* el.get_text(separator, strip=True)
get_text(el, separator) == Join(all_strings(el), separator)

\* extract_question_answer(html), lines 10-16
extract_question_answer(h) ==
    LET q_el == select_one(h, QUESTION_SELECTOR)
        a_el == select_one(h, ANSWER_SELECTOR)
    IN [called |-> TRUE,
        question |-> {get_text(el, <<>>) : el \in q_el},
        answer |-> {get_text(el, <<"\n">>) : el \in a_el}]

\* a call of extract_question_answer(html) returns
ExtractQuestionAnswer ==
    /\ ~parsed.called
    /\ parsed' = extract_question_answer(html)
    /\ UNCHANGED <<env, calls, pulledAtSignal, pc, shutdown, consumer, synth, consumed, tasks, phase,
                   http, doc, store, inserts, opened, closed, exc, atSignal,
                   startSignal, extractCalls, html>>

ParserInit ==
    /\ html \in Documents
    /\ parsed = NotParsed
    /\ env = [kafka |-> FALSE, webdriver |-> FALSE, motor |-> FALSE,
              MONGO_URI |-> Nothing, max_concurrent_fetches |-> 0,
              enable_browser |-> FALSE]
    /\ NotStarted

ParserNext == ExtractQuestionAnswer

ParserSpec == ParserInit /\ [][ParserNext]_vars

\* the strings of a sequence, one after the other
RECURSIVE Concat(_)
Concat(strings) ==
    IF strings = <<>> THEN <<>> ELSE strings[1] \o Concat(Tail(strings))

\* the text of an element with the whitespace around it removed
TrimmedText(el) ==
    Strip(Concat([k \in 1..Len(el.contents) |-> el.contents[k].string]))

\* C18: extract_question_answer returns, for each field, the trimmed text of
\* the first element that matches the field's selector, and None when no
\* element matches
C18_TrimmedTextOfFirstMatch ==
    parsed.called =>
        /\ parsed.question = {TrimmedText(el) : el \in select_one(html, QUESTION_SELECTOR)}
        /\ parsed.answer = {TrimmedText(el) : el \in select_one(html, ANSWER_SELECTOR)}

\* tasks whose extract call raised: the call was made and page_doc.update
\* was not reached
ExtractRaised == {i \in extractCalls : ~doc[i].extracted}

\* C21: when extract raised for a task, the record is at save_page exactly as
\* fetch returned it, run() is still in the worker loop with no exception
\* pending, and once save_page has returned the worker goes on as after any
\* other task
C21_ExtractFailureContained ==
    /\ [](\A i \in ExtractRaised :
            /\ phase[i] = "saving"
            /\ pc = "running"
            /\ exc = NoError
            /\ \E rnd \in RandomIds : doc[i] = Fetch(tasks[i], http[i], rnd))
    /\ [][\A i \in ExtractRaised :
            phase'[i] = "done" =>
                /\ exc' = NoError
                /\ pc' = IF shutdown THEN "stop_consumer" ELSE "running"]_vars

C21_Witness ==
    /\ ExtractRaised # {}
    /\ \E i \in ExtractRaised : doc[i].html = Some("<html>") /\ doc[i].question = Nothing
    /\ ~shutdown

(***************************************************************************)
(* KafkaConsumerWrapper on its own, lines 272-319: start() once at most,   *)
(* stop() any number of times, in any order.                               *)
(***************************************************************************)
\* start and stop calls made on one wrapper
MaxCalls == 3

Call(op, result) == [op |-> op, result |-> result]

\* the stop calls that reached AIOKafkaConsumer.stop()
ConsumerStops == {k \in 1..Len(calls) : calls[k].op = "stop" /\ calls[k].result # "noop"}

\* variant: AIOKafkaConsumer.stop() without its closed flag
ConsumerClosedNever == FALSE

\* AIOKafkaConsumer._closed: set at the head of its stop(), which returns at
\* once when it finds the flag set
ConsumerClosed == ConsumerStops # {}

\* await consumer.start(), lines 279-291
WrapperStart(brokerUp) ==
    /\ Len(calls) < MaxCalls
    /\ \A k \in 1..Len(calls) : calls[k].op # "start"
    /\ IF ~env.kafka
         THEN /\ calls' = Append(calls, Call("start", "noop"))
              /\ UNCHANGED <<consumer, opened, exc>>
         ELSE IF brokerUp
           THEN /\ calls' = Append(calls, Call("start", "started"))
                /\ consumer' = [obj |-> TRUE, running |-> TRUE]
                /\ opened' = opened \cup {"consumer"}
                /\ UNCHANGED exc
           ELSE /\ calls' = Append(calls, Call("start", "raised"))
                /\ consumer' = [obj |-> TRUE, running |-> FALSE]
                /\ exc' = "KafkaConnectionError"
                /\ UNCHANGED opened
    /\ UNCHANGED <<env, pulledAtSignal, pc, shutdown, synth, consumed, tasks, phase, http, doc,
                   store, inserts, closed, atSignal, startSignal, extractCalls,
                   html, parsed>>

\* await consumer.stop(), lines 316-319; ok: AIOKafkaConsumer.stop() returns
WrapperStop(ok) ==
    /\ Len(calls) < MaxCalls
    /\ IF ~consumer.obj \/ ConsumerClosed
         THEN /\ calls' = Append(calls, Call("stop", "noop"))
              /\ UNCHANGED <<opened, exc>>
         ELSE IF ok
           THEN /\ calls' = Append(calls, Call("stop", "released"))
                /\ opened' = opened \ {"consumer"}
                /\ UNCHANGED exc
           ELSE /\ calls' = Append(calls, Call("stop", "raised"))
                /\ exc' = "CloseError"
                /\ UNCHANGED opened
    /\ UNCHANGED <<env, pulledAtSignal, pc, shutdown, consumer, synth, consumed, tasks, phase,
                   http, doc, store, inserts, closed, atSignal, startSignal,
                   extractCalls, html, parsed>>

WrapperInit ==
    /\ env \in Environments
    /\ NotStarted
    /\ html = <<>>
    /\ parsed = NotParsed

WrapperNext ==
    \/ \E brokerUp \in BOOLEAN : WrapperStart(brokerUp)
    \/ \E ok \in BOOLEAN : WrapperStop(ok)

WrapperSpec == WrapperInit /\ [][WrapperNext]_vars

\* the stop calls, and those of them that released the connection
StopCalls == {k \in 1..Len(calls) : calls[k].op = "stop"}
Releases == {k \in StopCalls : calls[k].result = "released"}

EndedAfterStart ==
    /\ pc \in {"returned", "raised"}
    /\ exc \notin {"KafkaConnectionError", "BrowserInitError"}

\* the close calls of the finally block made so far: those that returned and,
\* when one raised, that one
CloseCalled ==
    ClosedStages \cup (IF exc = "CloseError" THEN {CloseOrder[Len(closed) + 1]} ELSE {})

\* C23: whenever run() has ended after consumer.start() returned, consumer.stop,
\* fetcher.close and store.close have each been called, and browser_worker.close
\* too when a browser session exists
C23_EveryExitClosesEveryStage ==
    EndedAfterStart =>
        /\ {"consumer", "fetcher", "store"} \subseteq CloseCalled
        /\ HasBrowser => "browser" \in CloseCalled

\* C24: the shutdown flag, once set, stays set; while a task is in flight the
\* worker stays in its loop whatever the flag; the step that completes a task
\* with the flag set leaves the loop; and at most one task is pulled beyond
\* those that had been pulled when the flag was set
C24_FlagTestedAfterEachTask ==
    /\ [][shutdown => shutdown']_vars
    /\ []((shutdown /\ InFlight # {}) => pc = "running")
    /\ [][\A i \in 1..Len(tasks) :
            (shutdown /\ phase[i] # "done" /\ phase'[i] = "done")
                => pc' = "stop_consumer"]_vars
    /\ [](/\ shutdown <=> pulledAtSignal # Nothing
          /\ \A n \in pulledAtSignal : Len(tasks) <= n + 1)

\* a task was pulled after the signal (no task was in flight at any signal),
\* was processed, and the loop ended with it
C24_Witness ==
    /\ pulledAtSignal = Some(0)
    /\ consumer.obj
    /\ atSignal = {}
    /\ Len(tasks) = 1
    /\ phase[1] = "done"
    /\ exc = NoError
    /\ pc = "returned"

====
